---- MODULE Spec2Model ----
(***************************************************************************)
(* Model of the sampling / estimation pipeline of the repository:          *)
(*   06_takeasampleoftypes.py     the stratified sampler                   *)
(*   07_frequenciesandestimates.py  process_workbook, the partitioner and  *)
(*                                  scale-up estimator                     *)
(* A worksheet is a sequence of rows, row 1 being the header (openpyxl's   *)
(* 1-based row numbers).  A row is a tuple of five cells, so row[3] is     *)
(* column C (row[2] in the code) and row[5] is column E (row[4]).  A cell  *)
(* holding text is a sequence of one-character strings, so that            *)
(* str.lower() and str.upper() are computed; an empty cell is Null.        *)
(* Floats are modelled by exact rationals in lowest terms.                 *)
(*   08_calculatingsignificanceandeffect.py  the significance engine and   *)
(*                                  its command line                       *)
(* The input CSV is a sequence of rows, its numbers are rationals; the     *)
(* values of math.log and math.log2 are integers in millionths.            *)
(***************************************************************************)
EXTENDS Integers, Sequences, FiniteSets, TLC

VARIABLES wb, processed, results, pc, csv, argv, stats, calls, disk,
          dir, walk, attempted, all_results, reports

vars == <<wb, processed, results, pc, csv, argv, stats, calls, disk,
          dir, walk, attempted, all_results, reports>>

\* the state of the sampling / estimation pipeline
pipelineVars == <<wb, processed, results>>

\* the state of the significance CLI
statsVars == <<csv, argv, stats, calls, disk>>

\* the state of a run of the estimator over a directory and of its reports
dirVars == <<dir, walk, attempted, all_results, reports>>

(***************************************************************************)
(* Bounds of the model.                                                    *)
(***************************************************************************)
\* seeds of the random source: 0..MaxSeed
MaxSeed == 2
\* size of a group that is clearly below the sampler's floor
SmallGroup == 10
\* how far above the floor the largest identity count lies
Over == 5
\* number of data rows of the 'extra' sheet, when the workbook has one
ExtraRows == 3

(***************************************************************************)
(* Program constants.                                                      *)
(***************************************************************************)
\* 06: "if len(rows) < 20"
MinGroupSize == 20
\* 06: "int(len(rows) * 0.2)": the fraction is 1 / FractionDen
FractionDen == 5
\* 07: "if count <= 20"
LowFreqThreshold == 20

(***************************************************************************)
(* Cells and strings.                                                      *)
(***************************************************************************)
\* the value of an empty cell (Python's None); not a string of the model
Null == <<"<None>">>

\* str.lower() on one character: the letters of the cells the workbooks hold
LowerChar(c) ==
    CASE c = "B" -> "b" [] c = "E" -> "e" [] c = "G" -> "g" [] c = "M" -> "m" [] c = "N" -> "n"
      [] c = "O" -> "o" [] c = "R" -> "r" [] c = "S" -> "s" [] c = "U" -> "u"
      [] c = "Y" -> "y" [] c = "T" -> "t" [] c = "A" -> "a" [] c = "L" -> "l"
      [] c = "W" -> "w" [] c = "F" -> "f" [] c = "D" -> "d" [] OTHER -> c

\* str.upper() on one character
UpperChar(c) ==
    CASE c = "b" -> "B" [] c = "e" -> "E" [] c = "g" -> "G" [] c = "m" -> "M" [] c = "n" -> "N"
      [] c = "o" -> "O" [] c = "r" -> "R" [] c = "s" -> "S" [] c = "u" -> "U"
      [] c = "y" -> "Y" [] c = "t" -> "T" [] c = "a" -> "A" [] c = "l" -> "L"
      [] c = "w" -> "W" [] c = "f" -> "F" [] c = "d" -> "D" [] OTHER -> c

Lower(s) == [i \in 1..Len(s) |-> LowerChar(s[i])]

Upper(s) == [i \in 1..Len(s) |-> UpperChar(s[i])]

\* str(value): None prints as "None", a string is itself
Str(v) == IF v = Null THEN <<"N","o","n","e">> ELSE v

\* Python truthiness of a cell value: None and "" are falsy
Truthy(v) == v # Null /\ v # <<>>

(***************************************************************************)
(* Rationals in lowest terms, standing for the floats of the estimator.    *)
(***************************************************************************)
RECURSIVE Gcd(_, _)
Gcd(a, b) == IF b = 0 THEN a ELSE Gcd(b, a % b)

Rat(n, d) == LET g == Gcd(n, d) IN [num |-> n \div g, den |-> d \div g]

RatInt(n) == [num |-> n, den |-> 1]

RatAdd(p, q) == Rat(p.num * q.den + q.num * p.den, p.den * q.den)

RatSub(p, q) == Rat(p.num * q.den - q.num * p.den, p.den * q.den)

RatMul(p, q) == Rat(p.num * q.num, p.den * q.den)

\* p / q for q # 0; the denominator is kept positive
RatDiv(p, q) ==
    IF q.num > 0 THEN Rat(p.num * q.den, p.den * q.num)
    ELSE Rat(-(p.num * q.den), p.den * (-q.num))

RatLess(p, q) == p.num * q.den < q.num * p.den

RatPositive(p) == p.num > 0

\* Python's None where a number is expected: not a number of the model
None == [num |-> 0, den |-> 0]

\* the value of a function that has not returned
NotRun == [status |-> "not run", error |-> "", table |-> <<>>]

(***************************************************************************)
(* Sequences.                                                              *)
(***************************************************************************)
\* the sequence without its i-th element
RemoveAt(s, i) == SubSeq(s, 1, i - 1) \o SubSeq(s, i + 1, Len(s))

Range(s) == {s[i] : i \in 1..Len(s)}

\* sorted(s, reverse=True) of a list of distinct integers
SortedReverse(s) ==
    [i \in 1..Len(s) |->
       CHOOSE x \in Range(s) : Cardinality({y \in Range(s) : y > x}) = i - 1]

\* the rows of s at the positions idx (a sequence of positions), in that order
RowsAt(s, idx) == [i \in 1..Len(idx) |-> s[idx[i]]]

(***************************************************************************)
(* Worksheets.                                                             *)
(***************************************************************************)
\* worksheet.max_row: the number of the last row (the header is row 1)
MaxRow(sheet) == Len(sheet)

\* iter_rows(min_row=2): the data rows in order
DataRows(sheet) == SubSeq(sheet, 2, MaxRow(sheet))

\* worksheet.delete_rows(idx): row idx goes, the rows below move up by one;
\* a row number past the last row deletes nothing
DeleteRows(sheet, idx) ==
    IF idx > MaxRow(sheet) THEN sheet ELSE RemoveAt(sheet, idx)

\* workbook with sheet `name` created or replaced
WithSheet(book, name, sheet) ==
    [n \in DOMAIN book \cup {name} |-> IF n = name THEN sheet ELSE book[n]]

(***************************************************************************)
(* 06_takeasampleoftypes.py: the sampler.                                  *)
(***************************************************************************)
\* key = str(row[2]).lower()
GroupKey(row) == Lower(Str(row[3]))

\* rows_by_value: the groups in order of first appearance (dict order), each
\* with its rows in sheet order
RowsByValue(sheet) ==
    LET rows == DataRows(sheet)
        key == [i \in 1..Len(rows) |-> GroupKey(rows[i])]
        first == SelectSeq([i \in 1..Len(rows) |-> i],
                           LAMBDA i : \A j \in 1..(i - 1) : key[j] # key[i])
    IN [n \in 1..Len(first) |->
          [key  |-> key[first[n]],
           rows |-> SelectSeq(rows, LAMBDA r : GroupKey(r) = key[first[n]])]]

\* int(x) of the float len(rows) * 0.2; the double product len * 0.2 truncates
\* to len div 5 for every length a worksheet can have
IntOfFraction(n) == n \div FractionDen

Max(a, b) == IF a >= b THEN a ELSE b

\* sample_size = max(1, int(len(rows) * 0.2))
SampleSize(n) == Max(1, IntOfFraction(n))

\* the i-th number the random source, started from `seed`, gives below m
RandBelow(seed, i, m) == (seed * (2 * i + 3) + 3 * i * i) % m

\* random.sample(population, k): k draws without replacement; every draw
\* takes one element out of the pool of elements not yet drawn
RECURSIVE DrawFromPool(_, _, _, _)
DrawFromPool(pool, k, seed, i) ==
    IF k = 0 THEN <<>>
    ELSE LET j == RandBelow(seed, i, Len(pool)) + 1
         IN <<pool[j]>> \o DrawFromPool(RemoveAt(pool, j), k - 1, seed, i + 1)

RandomSample(population, k, seed) == DrawFromPool(population, k, seed, 0)

\* SampledRows with the floor test off by one: a group of 20 is kept whole
SampledRowsKeepsTwenty(rows, seed) ==
    IF Len(rows) <= MinGroupSize
    THEN rows
    ELSE RandomSample(rows, SampleSize(Len(rows)), seed)

\* the rows of one group that are copied: all when fewer than 20, else a sample
SampledRows(rows, seed) ==
    IF Len(rows) < MinGroupSize
    THEN rows
    ELSE RandomSample(rows, SampleSize(Len(rows)), seed)

RECURSIVE AppendGroups(_, _, _, _)
AppendGroups(sheet, groups, n, seed) ==
    IF n > Len(groups) THEN sheet
    ELSE AppendGroups(sheet \o SampledRows(groups[n].rows, seed), groups,
                      n + 1, seed)

\* new_worksheet: the header, then each group's sampled rows in dict order
NewWorksheet(sheet, seed) ==
    AppendGroups(<<sheet[1]>>, RowsByValue(sheet), 1, seed)

\* new_worksheet_name = worksheet_name + "_20%"
SampleSheetName(name) == name \o "_20%"

(***************************************************************************)
(* Input workbooks: the files load_workbook can be given.  A sheet is the  *)
(* header and blocks of rows, one block per value of column C; column A    *)
(* numbers the rows and column E follows one of the annotation patterns.   *)
(***************************************************************************)
IdRun == <<"r","u","n">>
IdRunCap == <<"R","u","n">>
IdGo == <<"g","o">>
IdBe == <<"b","e">>

\* the values of column C of the main sheet
Idents == <<IdRun, IdRunCap, IdGo>>

Y == <<"Y">>

\* cyclic annotation patterns of column E
Patterns ==
    << <<Y>>,
       <<Null>>,
       << <<"y">>, <<"n">>, <<"O">>, Null, <<"Y","E","S">>, <<"o">>, <<" ","Y">> >> >>

Header == <<0, Null, <<"w","o","r","d">>, Null, <<"M","e","t">>>>

\* n rows with the value ident in column C, numbered from firstId + 1 in
\* column A
Block(ident, n, firstId, pat) ==
    [i \in 1..n |->
       <<firstId + i, Null, ident, Null, pat[((firstId + i - 1) % Len(pat)) + 1]>>]

\* blocks is a sequence of pairs <<value of column C, number of rows>>
RECURSIVE Blocks(_, _, _, _)
Blocks(blocks, n, firstId, pat) ==
    IF n > Len(blocks) THEN <<>>
    ELSE Block(blocks[n][1], blocks[n][2], firstId, pat)
         \o Blocks(blocks, n + 1, firstId + blocks[n][2], pat)

\* a worksheet: the header and the blocks of rows
SheetOf(blocks, pat) == <<Header>> \o Blocks(blocks, 1, 0, pat)

\* the numbers of rows each identity of Idents can have in the main sheet
CountChoices ==
    << {0, SmallGroup, LowFreqThreshold, LowFreqThreshold + 1},
       {0, SmallGroup},
       {0, LowFreqThreshold + 1, LowFreqThreshold + Over} >>

\* the orders in which the blocks of the main sheet can lie
Orders == {<<1, 2, 3>>, <<3, 2, 1>>}

MainSheet == "S7.1+"
SecondSheet == "S8.1"
RegularNames == {MainSheet, SecondSheet}

\* the second sheet: two rare identities around a frequent one, and a row whose
\* column C is empty
SecondBlocks ==
    << <<IdBe, 2>>, <<IdGo, LowFreqThreshold + 1>>, <<Null, 1>>,
       <<IdRun, SmallGroup>> >>

ExtraSheet(pat) == SheetOf(<< <<IdGo, ExtraRows>> >>, pat)

CodingList == SheetOf(<< <<IdGo, 1>> >>, <<Y>>)

MainSheets ==
    { SheetOf([n \in 1..3 |-> <<Idents[o[n]], c[o[n]]>>], Patterns[p])
      : c \in {f \in [1..3 -> 0..(LowFreqThreshold + Over)] :
                 \A i \in 1..3 : f[i] \in CountChoices[i]},
        o \in Orders, p \in 1..Len(Patterns) }

\* the annotation pattern of the main sheet, which the other sheets share
PatternOf(sheet) ==
    IF Len(sheet) = 1 THEN Patterns[1]
    ELSE CHOOSE pat \in Range(Patterns) : sheet[2][5] = pat[1]

InputWorkbooks ==
    { LET pat == PatternOf(main)
          base == [n \in {MainSheet, "Coding List"} |->
                     IF n = MainSheet THEN main ELSE CodingList]
          b2 == IF second
                THEN WithSheet(base, SecondSheet, SheetOf(SecondBlocks, pat))
                ELSE base
      IN IF extra THEN WithSheet(b2, "extra", ExtraSheet(pat)) ELSE b2
      : main \in MainSheets, second \in BOOLEAN, extra \in BOOLEAN }

NoResults == [k \in {} |-> 0]

\* the significance CLI has not been started: no input, no output
StatsIdle ==
    /\ csv = <<>>
    /\ argv = [ssc_words |-> None, lec_words |-> None]
    /\ stats = NotRun
    /\ calls = <<>>
    /\ disk = {}

\* a report that has not been produced
NoReport == [status |-> "not run", files |-> <<>>]

\* the estimator has not been started on a directory
DirIdle ==
    /\ dir = NoResults
    /\ walk = <<>>
    /\ attempted = <<>>
    /\ all_results = <<>>
    /\ reports = [tabular |-> NoReport, consolidated |-> NoReport]

Init ==
    /\ wb \in InputWorkbooks
    /\ processed = NoResults
    /\ results = NoResults
    /\ pc = "sampling"
    /\ StatsIdle
    /\ DirIdle

\* one run of the sampling script with worksheet_name set to a regular sheet
\* and the random source in the state `seed`; the script is run at most once
\* per sheet.  It saves the workbook to the path it was loaded from.
Sampler(worksheet_name, seed) ==
    /\ pc = "sampling"
    /\ worksheet_name \in DOMAIN wb
    /\ SampleSheetName(worksheet_name) \notin DOMAIN wb
    /\ wb' = WithSheet(wb, SampleSheetName(worksheet_name),
                       NewWorksheet(wb[worksheet_name], seed))
    /\ UNCHANGED <<processed, results, pc, statsVars, dirVars>>

(***************************************************************************)
(* 07_frequenciesandestimates.py: process_workbook.                        *)
(***************************************************************************)
\* IsMetaphor without the upper(): only the capital letters count
IsMetaphorCaseSensitive(row) ==
    Truthy(row[5]) /\ Str(row[5]) \in {<<"Y">>, <<"O">>}

\* row[4].value and str(row[4].value).upper() in ('Y', 'O')
IsMetaphor(row) ==
    Truthy(row[5]) /\ Upper(Str(row[5])) \in {<<"Y">>, <<"O">>}

\* the counting loop over iter_rows(min_row=2)
MetaphorCount(sheet) == Len(SelectSeq(DataRows(sheet), IsMetaphor))

\* extra_metaphor_count: 0 unless the workbook has an 'extra' sheet
ExtraMetaphorCount(book) ==
    IF "extra" \in DOMAIN book THEN MetaphorCount(book["extra"]) ELSE 0

\* name.endswith(suffix), for the sheet names a workbook of the model can hold
EndsWith(name, suffix) ==
    \E b \in RegularNames \cup {"extra", "Coding List"} : name = b \o suffix

\* 'coding list' in sheet_name.lower()
HasCodingList(name) == name \in {"Coding List", "Coding Lists"}

LfSheetName(name) == name \o "_lf"

\* regular_sheets, less the names the loop skips
RegularSheets(book) ==
    {name \in DOMAIN book :
        /\ ~EndsWith(name, "_20%")
        /\ name \notin {"Coding List", "Coding Lists", "Coding_lists", "extra"}
        /\ ~EndsWith(name, "_lf")
        /\ ~HasCodingList(name)}

\* string_counts: occurrences of each string of column C in the full sheet
StringCounts(sheet) ==
    LET rows == SelectSeq(DataRows(sheet), LAMBDA r : Truthy(r[3]))
    IN [s \in {Str(rows[i][3]) : i \in 1..Len(rows)} |->
          Len(SelectSeq(rows, LAMBDA r : Str(r[3]) = s))]

\* IsLowCount with the sampler's test: below 20
IsLowCountStrict(count) == count < LowFreqThreshold

\* whether a string with this count is a low frequency string
IsLowCount(count) == count <= LowFreqThreshold

\* low_freq_strings
LowFreqStrings(sheet) ==
    LET string_counts == StringCounts(sheet)
    IN {s \in DOMAIN string_counts : IsLowCount(string_counts[s])}

\* rows_to_remove: the row numbers of the sample sheet's low frequency rows,
\* in the order the loop meets them
RowsToRemove(sample_sheet, low_freq_strings) ==
    SelectSeq([i \in 1..MaxRow(sample_sheet) |-> i],
              LAMBDA i : /\ i >= 2
                         /\ Truthy(sample_sheet[i][3])
                         /\ Str(sample_sheet[i][3]) \in low_freq_strings)

\* lf_sheet: the sample sheet's header, then its low frequency rows
LfSheet(sample_sheet, low_freq_strings) ==
    <<sample_sheet[1]>>
    \o RowsAt(sample_sheet, RowsToRemove(sample_sheet, low_freq_strings))

\* DeletionOrder without the reversal: the rows are deleted top down
DeletionOrderAscending(rows_to_remove) == rows_to_remove

\* the order in which the rows are deleted: sorted(rows_to_remove, reverse=True)
DeletionOrder(rows_to_remove) == SortedReverse(rows_to_remove)

\* for row_idx in ...: sample_sheet.delete_rows(row_idx)
RECURSIVE DeleteEach(_, _, _)
DeleteEach(sheet, order, n) ==
    IF n > Len(order) THEN sheet
    ELSE DeleteEach(DeleteRows(sheet, order[n]), order, n + 1)

\* the sample sheet after the low frequency rows were removed
ReducedSample(sample_sheet, low_freq_strings) ==
    DeleteEach(sample_sheet,
               DeletionOrder(RowsToRemove(sample_sheet, low_freq_strings)), 1)

\* TotalHfRows without the subtraction
TotalHfRowsUnreduced(row_count, lf_rows_count) == row_count

\* results[sheet_name]['total_hf_rows'] = row_count - lf_rows_count
TotalHfRows(row_count, lf_rows_count) == row_count - lf_rows_count

\* SampleMetaphorCount taken before the low frequency rows are removed
SampleMetaphorCountBeforeRemoval(sample_sheet, reduced) ==
    MetaphorCount(sample_sheet)

\* sample_metaphor_count: counted in the sample sheet after the removal
SampleMetaphorCount(sample_sheet, reduced) == MetaphorCount(reduced)

\* (sample_metaphor_count / sample_remaining_rows) * row_count, else 0
HfEstimatedMetaphors(sample_metaphor_count, sample_remaining_rows, row_count) ==
    IF sample_remaining_rows > 0
    THEN Rat(sample_metaphor_count * row_count, sample_remaining_rows)
    ELSE RatInt(0)

\* FinalEstimateExcludingExtra that leaves the low frequency metaphors out
FinalEstimateHfOnly(hf_estimated_metaphors, lf_metaphor_count) ==
    hf_estimated_metaphors

\* final_estimate_excluding_extra = hf_estimated_metaphors + lf_metaphor_count
FinalEstimateExcludingExtra(hf_estimated_metaphors, lf_metaphor_count) ==
    RatAdd(hf_estimated_metaphors, RatInt(lf_metaphor_count))

\* results[sheet_name] of one regular sheet
SheetEntry(book, sheet_name) ==
    LET sheet == book[sheet_name]
        row_count == MaxRow(sheet) - 1
        low_freq_strings == LowFreqStrings(sheet)
    IN IF SampleSheetName(sheet_name) \in DOMAIN book
       THEN LET sample_sheet == book[SampleSheetName(sheet_name)]
                lf_sheet == LfSheet(sample_sheet, low_freq_strings)
                lf_rows_count ==
                    Len(RowsToRemove(sample_sheet, low_freq_strings))
                lf_metaphor_count == MetaphorCount(lf_sheet)
                reduced == ReducedSample(sample_sheet, low_freq_strings)
                sample_remaining_rows == MaxRow(reduced) - 1
                sample_metaphor_count ==
                    SampleMetaphorCount(sample_sheet, reduced)
                hf == HfEstimatedMetaphors(sample_metaphor_count,
                                           sample_remaining_rows, row_count)
            IN [total_rows |-> row_count,
                low_freq_strings |-> low_freq_strings,
                total_lf_rows |-> lf_rows_count,
                total_hf_rows |-> TotalHfRows(row_count, lf_rows_count),
                low_freq_metaphors |-> lf_metaphor_count,
                sample_remaining_rows |-> sample_remaining_rows,
                sample_metaphors |-> sample_metaphor_count,
                hf_estimated_metaphors |-> hf,
                final_estimate_excluding_extra |->
                    FinalEstimateExcludingExtra(hf, lf_metaphor_count)]
       ELSE [total_rows |-> row_count, low_freq_strings |-> low_freq_strings]

\* isinstance(sheet_data, dict): a per-sheet entry, not a number
IsDict(key) == key \notin {"extra_metaphors", "hf_estimated_metaphors_total",
                           "final_estimate_total"}

\* total_hf_estimated: sum(sheet_data.get('hf_estimated_metaphors', 0) ...)
\* over the entries of res that are per-sheet dictionaries
RECURSIVE SumHfEstimated(_, _)
SumHfEstimated(res, keys) ==
    IF keys = {} THEN RatInt(0)
    ELSE LET k == CHOOSE x \in keys : TRUE
             v == IF k # "extra_metaphors" /\ IsDict(k)
                     /\ "hf_estimated_metaphors" \in DOMAIN res[k]
                  THEN res[k].hf_estimated_metaphors
                  ELSE RatInt(0)
         IN RatAdd(v, SumHfEstimated(res, keys \ {k}))

TotalHfEstimated(res) == SumHfEstimated(res, DOMAIN res)

\* total_lf_metaphors: sum(sheet_data.get('low_freq_metaphors', 0) ...)
RECURSIVE SumLfMetaphors(_, _)
SumLfMetaphors(res, keys) ==
    IF keys = {} THEN 0
    ELSE LET k == CHOOSE x \in keys : TRUE
             v == IF k # "extra_metaphors" /\ IsDict(k)
                     /\ "low_freq_metaphors" \in DOMAIN res[k]
                  THEN res[k].low_freq_metaphors
                  ELSE 0
         IN v + SumLfMetaphors(res, keys \ {k})

TotalLfMetaphors(res) == SumLfMetaphors(res, DOMAIN res)

\* FinalEstimateTotal that leaves the 'extra' metaphors out
FinalEstimateTotalNoExtra(res) ==
    RatAdd(TotalHfEstimated(res), RatInt(TotalLfMetaphors(res)))

\* final_estimate_total = total_hf_estimated + total_lf_metaphors + extra
FinalEstimateTotal(res) ==
    RatAdd(RatAdd(TotalHfEstimated(res), RatInt(TotalLfMetaphors(res))),
           RatInt(res["extra_metaphors"]))

\* the dictionary process_workbook returns
Results(book) ==
    LET sheets == [k \in RegularSheets(book) \cup {"extra_metaphors"} |->
                     IF k = "extra_metaphors"
                     THEN ExtraMetaphorCount(book)
                     ELSE SheetEntry(book, k)]
    IN [k \in DOMAIN sheets
              \cup {"hf_estimated_metaphors_total", "final_estimate_total"} |->
          CASE k = "hf_estimated_metaphors_total" -> TotalHfEstimated(sheets)
            [] k = "final_estimate_total" -> FinalEstimateTotal(sheets)
            [] OTHER -> sheets[k]]

\* the regular sheets that have a sample sheet
AnalysedSheets(book) ==
    {name \in RegularSheets(book) : SampleSheetName(name) \in DOMAIN book}

\* the workbook saved as <name>_processed.xlsx: every analysed sheet has got
\* its _lf sheet and its sample sheet is reduced
ProcessedWorkbook(book) ==
    LET analysed == AnalysedSheets(book)
    IN [n \in DOMAIN book \cup {LfSheetName(a) : a \in analysed} |->
          IF \E a \in analysed : n = LfSheetName(a)
          THEN LET a == CHOOSE a \in analysed : n = LfSheetName(a)
               IN LfSheet(book[SampleSheetName(a)], LowFreqStrings(book[a]))
          ELSE IF \E a \in analysed : n = SampleSheetName(a)
          THEN LET a == CHOOSE a \in analysed : n = SampleSheetName(a)
               IN ReducedSample(book[n], LowFreqStrings(book[a]))
          ELSE book[n]]

\* one call of process_workbook on the workbook file; the file itself is left
\* as it is, the changed workbook is saved beside it
ProcessWorkbook ==
    /\ pc = "sampling"
    /\ results' = Results(wb)
    /\ processed' = ProcessedWorkbook(wb)
    /\ pc' = "estimated"
    /\ UNCHANGED <<wb, statsVars, dirVars>>

Next ==
    \/ \E name \in RegularNames, seed \in 0..MaxSeed : Sampler(name, seed)
    \/ ProcessWorkbook

Spec == Init /\ [][Next]_vars

(***************************************************************************)
(* 08_calculatingsignificanceandeffect.py: the numbers.                    *)
(* Counts, relative frequencies and corpus sizes are rationals.  A         *)
(* logarithm is an integer in millionths; a p-value is an integer in       *)
(* millionths as well.                                                     *)
(***************************************************************************)
\* the largest raw count of an input row
MaxRaw == 10
\* the rounding error of one math.log / math.log2 result, in millionths: the
\* float result is the real logarithm give or take one such unit
LogUlp == 1000

\* zero_floor=1e-5 is 1 / ZeroFloorInverse
ZeroFloorInverse == 100000
\* p = min(p, 0.9999)
PCap == 999900
\* p_to_marker: "if p < 1e-4"
FourStarsBelow == 100
\* p_to_marker: "if p < 1e-3"
ThreeStarsBelow == 1000
\* p_to_marker: "if p < 0.05"
OneStarBelow == 50000
\* Significant=p < 0.05
Alpha == 50000
\* corpus size = raw * (1000.0 / rf): the relative frequencies are per 1000
PerWords == 1000

RECURSIVE SumInts(_)
SumInts(s) == IF s = <<>> THEN 0 ELSE Head(s) + SumInts(Tail(s))

\* n / d rounded to the nearest integer, d > 0
RoundDiv(n, d) == (2 * n + d) \div (2 * d)

\* n / d rounded to the nearest integer, a tie going to the even one
\* (round() of numpy and the 'f' format of Python)
RoundHalfEven(n, d) ==
    LET q == n \div d
        r == n % d
    IN IF 2 * r < d THEN q
       ELSE IF 2 * r > d THEN q + 1
       ELSE IF q % 2 = 0 THEN q ELSE q + 1

\* the prime factors of the integers the logarithms are taken of
Primes == {2, 3, 5, 7, 11, 13, 17, 19, 23, 29, 31}

LeastPrime(n) ==
    CHOOSE p \in Primes : n % p = 0 /\ \A q \in Primes : q < p => n % q # 0

\* ln(p) in millionths
LnPrime(p) ==
    CASE p = 2 -> 693147 [] p = 3 -> 1098612 [] p = 5 -> 1609438
      [] p = 7 -> 1945910 [] p = 11 -> 2397895 [] p = 13 -> 2564949
      [] p = 17 -> 2833213 [] p = 19 -> 2944439 [] p = 23 -> 3135494
      [] p = 29 -> 3367296 [] p = 31 -> 3433987

\* log2(p) in millionths
Log2Prime(p) ==
    CASE p = 2 -> 1000000 [] p = 3 -> 1584963 [] p = 5 -> 2321928
      [] p = 7 -> 2807355 [] p = 11 -> 3459432 [] p = 13 -> 3700440
      [] p = 17 -> 4087463 [] p = 19 -> 4247928 [] p = 23 -> 4523562
      [] p = 29 -> 4857981 [] p = 31 -> 4954196

RECURSIVE LnInt(_)
LnInt(n) ==
    IF n = 1 THEN 0 ELSE LET p == LeastPrime(n) IN LnPrime(p) + LnInt(n \div p)

RECURSIVE Log2Int(_)
Log2Int(n) ==
    IF n = 1 THEN 0
    ELSE LET p == LeastPrime(n) IN Log2Prime(p) + Log2Int(n \div p)

\* math.log(x) for x > 0, with the rounding error err (-1, 0 or 1 units) of
\* the float result; log(1.0) is 0.0 exactly
MathLog(x, err) ==
    IF x.num = x.den THEN 0 ELSE LnInt(x.num) - LnInt(x.den) + err * LogUlp

\* the integers whose log2 is a whole number
PowersOfTwo == {2 ^ k : k \in 0..30}

\* math.log2(x) for x > 0, rounded the same way; the log2 of a power of two
\* is a whole number and exact
MathLog2(x, err) ==
    IF x.num \in PowersOfTwo /\ x.den \in PowersOfTwo
    THEN Log2Int(x.num) - Log2Int(x.den)
    ELSE Log2Int(x.num) - Log2Int(x.den) + err * LogUlp

\* chi2.sf(x, 1) in millionths at x = 0, 0.25, 0.5, ... 25
SfTable ==
    << 1000000, 617075, 479500, 386476, 317311, 263552, 220671, 185877,
       157299, 133614, 113846, 97254, 83265, 71423, 61369, 52808, 45500,
       39250, 33895, 29298, 25347, 21947, 19016, 16489, 14306, 12419, 10787,
       9375, 8151, 7090, 6170, 5371, 4678, 4075, 3551, 3096, 2700, 2355,
       2055, 1793, 1565, 1367, 1194, 1043, 911, 796, 696, 608, 532, 465, 407,
       356, 311, 273, 239, 209, 183, 160, 140, 123, 108, 94, 83, 72, 63, 56,
       49, 43, 37, 33, 29, 25, 22, 19, 17, 15, 13, 11, 10, 9, 8, 7, 6, 5, 5,
       4, 4, 3, 3, 2, 2, 2, 2, 1, 1, 1, 1, 1, 1, 1, 1 >>

\* chi2.sf(g2, 1): the survival function of the chi-square distribution with
\* one degree of freedom, read off the table with linear interpolation; g2 is
\* in millionths
ChiSquareSf(g2) ==
    IF g2 <= 0 THEN SfTable[1]
    ELSE LET milli == g2 \div 1000
             k == milli \div 250
             f == milli % 250
         IN IF k + 2 > Len(SfTable) THEN 0
            ELSE SfTable[k + 1] - ((SfTable[k + 1] - SfTable[k + 2]) * f) \div 250

(***************************************************************************)
(* 08: g2_log_likelihood, log_ratio_log2, p_to_marker.                     *)
(***************************************************************************)
\* the four cells of the 2x2 table with their expected values e1..e4
CellsOf(a, b, c, d, ssc_words, lec_words, total_words) ==
    << [obs |-> a,
        exp |-> RatDiv(RatMul(RatAdd(a, b), ssc_words), total_words)],
       [obs |-> b,
        exp |-> RatDiv(RatMul(RatAdd(a, b), lec_words), total_words)],
       [obs |-> c,
        exp |-> RatDiv(RatMul(RatAdd(c, d), ssc_words), total_words)],
       [obs |-> d,
        exp |-> RatDiv(RatMul(RatAdd(c, d), lec_words), total_words)] >>

\* c = ssc_words - a, d = lec_words - b, total_words = ssc_words + lec_words
Cells(a, b, ssc_words, lec_words) ==
    CellsOf(a, b, RatSub(ssc_words, a), RatSub(lec_words, b),
            ssc_words, lec_words, RatAdd(ssc_words, lec_words))

\* a cell's term guarded by the expected value alone
TermAddedUnguarded(cell) == RatPositive(cell.exp)

\* "if e1 > 0 and a > 0": the cell's term is added
TermAdded(cell) == RatPositive(cell.exp) /\ RatPositive(cell.obs)

\* obs / exp raises ZeroDivisionError for exp = 0, math.log raises ValueError
\* for an argument that is not positive
LogRaises(cell) ==
    \/ cell.exp.num = 0
    \/ ~RatPositive(RatDiv(cell.obs, cell.exp))

\* the term weighted by the expected value: exp * math.log(obs / exp)
TermWeightedByExpected(cell, err) ==
    LET l == MathLog(RatDiv(cell.obs, cell.exp), err)
    IN RoundDiv(cell.exp.num * l, cell.exp.den)

\* obs * math.log(obs / exp)
Term(cell, err) ==
    LET l == MathLog(RatDiv(cell.obs, cell.exp), err)
    IN RoundDiv(cell.obs.num * l, cell.obs.den)

\* g2 += ... over the cells whose term is added, and 2.0 * g2: the cells
\* whose logarithm is taken, whether one of them raises, the value returned
SumOfTerms(added, err) ==
    IF \E i \in 1..Len(added) : LogRaises(added[i])
    THEN [raised |-> TRUE, logs |-> added, value |-> 0]
    ELSE [raised |-> FALSE, logs |-> added,
          value |-> 2 * SumInts([i \in 1..Len(added) |-> Term(added[i], err)])]

\* g2_log_likelihood(a, b, ssc_words, lec_words)
g2_log_likelihood(a, b, ssc_words, lec_words, err) ==
    IF ~RatPositive(RatAdd(ssc_words, lec_words))
    THEN [raised |-> FALSE, logs |-> <<>>, value |-> 0]
    ELSE SumOfTerms(SelectSeq(Cells(a, b, ssc_words, lec_words), TermAdded),
                    err)

\* the log-ratio of the first frequency against the floor, whatever the
\* second one is
LogRatioAgainstFloor(ssc_rf, lec_rf, err) ==
    IF RatPositive(ssc_rf)
    THEN MathLog2(RatDiv(ssc_rf, Rat(1, ZeroFloorInverse)), err)
    ELSE 0

\* the log-ratio with both branches of a zero side taken as "no difference"
LogRatioWithoutFloor(ssc_rf, lec_rf, err) ==
    IF RatPositive(ssc_rf) /\ RatPositive(lec_rf)
    THEN MathLog2(RatDiv(ssc_rf, lec_rf), err)
    ELSE 0

\* log_ratio_log2(ssc_rf, lec_rf, zero_floor=1e-5)
log_ratio_log2(ssc_rf, lec_rf, err) ==
    LET s == ssc_rf
        l == lec_rf
        zero_floor == Rat(1, ZeroFloorInverse)
    IN IF RatPositive(s) /\ RatPositive(l)
       THEN MathLog2(RatDiv(s, l), err)
       ELSE IF RatPositive(s) /\ ~RatPositive(l)
       THEN MathLog2(RatDiv(s, zero_floor), err)
       ELSE IF ~RatPositive(s) /\ RatPositive(l)
       THEN -MathLog2(RatDiv(l, zero_floor), err)
       ELSE 0

\* the markers with the bands of "***" and "*" exchanged
MarkerBandsExchanged(p) ==
    IF p < FourStarsBelow THEN "****"
    ELSE IF p < ThreeStarsBelow THEN "*"
    ELSE IF p < OneStarBelow THEN "***"
    ELSE "ns"

\* p_to_marker(p)
p_to_marker(p) ==
    IF p < FourStarsBelow THEN "****"
    ELSE IF p < ThreeStarsBelow THEN "***"
    ELSE IF p < OneStarBelow THEN "*"
    ELSE "ns"

(***************************************************************************)
(* 08: calculate_statistics.                                               *)
(* A table (DataFrame) is a sequence of rows; a row of the input is a      *)
(* record of Vehicle_group, SSC_Raw, SSC_RF, LEC_Raw, LEC_RF.              *)
(***************************************************************************)
Totals == <<"T", "O", "T", "A", "L", "S">>

\* str(...).upper() == "TOTALS"
IsTotals(row) == Upper(row.Vehicle_group) = Totals

\* the sizes inferred from the TOTALS rows found: the error raised, if any,
\* and raw * (1000.0 / rf) of the first of them
InferredFrom(totals) ==
    IF totals = <<>>
    THEN [error |-> "No TOTALS row found.", ssc_words |-> None,
          lec_words |-> None]
    ELSE IF ~RatPositive(totals[1].SSC_RF) \/ ~RatPositive(totals[1].LEC_RF)
    THEN [error |-> "TOTALS RF values must be > 0 to infer corpus size.",
          ssc_words |-> None, lec_words |-> None]
    ELSE [error |-> "",
          ssc_words |-> RatMul(totals[1].SSC_Raw,
                               RatDiv(RatInt(PerWords), totals[1].SSC_RF)),
          lec_words |-> RatMul(totals[1].LEC_Raw,
                               RatDiv(RatInt(PerWords), totals[1].LEC_RF))]

\* infer_corpus_sizes_from_totals(df)
infer_corpus_sizes_from_totals(df) == InferredFrom(SelectSeq(df, IsTotals))

\* the number whose log2 is log_ratio_log2(ssc_rf, lec_rf): 2 ** lr
TwoToTheLr(ssc_rf, lec_rf) ==
    LET zero_floor == Rat(1, ZeroFloorInverse)
    IN IF RatPositive(ssc_rf) /\ RatPositive(lec_rf)
       THEN RatDiv(ssc_rf, lec_rf)
       ELSE IF RatPositive(ssc_rf) /\ ~RatPositive(lec_rf)
       THEN RatDiv(ssc_rf, zero_floor)
       ELSE IF ~RatPositive(ssc_rf) /\ RatPositive(lec_rf)
       THEN RatDiv(zero_floor, lec_rf)
       ELSE RatInt(1)

\* f"{x:.1f}": x in tenths, for x >= 0
OneDecimal(x) ==
    10 * (x.num \div x.den) + RoundHalfEven(10 * (x.num % x.den), x.den)

\* the Interpretation of a vehicle group: who uses it more, and how many times
Interpretation(lr, ssc_rf, lec_rf) ==
    IF lr > 0
    THEN [more |-> "SSC", times |-> OneDecimal(TwoToTheLr(ssc_rf, lec_rf)),
          overall |-> FALSE]
    ELSE IF lr < 0
    THEN [more |-> "LEC",
          times |-> OneDecimal(RatDiv(RatInt(1), TwoToTheLr(ssc_rf, lec_rf))),
          overall |-> FALSE]
    ELSE [more |-> "No difference", times |-> 0, overall |-> FALSE]

\* the Interpretation of the TOTALS row
InterpretationTotal(lr_total, ssc_rf, lec_rf) ==
    IF lr_total >= 0
    THEN [more |-> "SSC", times |-> OneDecimal(TwoToTheLr(ssc_rf, lec_rf)),
          overall |-> TRUE]
    ELSE [more |-> "LEC",
          times |-> OneDecimal(RatDiv(RatInt(1), TwoToTheLr(ssc_rf, lec_rf))),
          overall |-> TRUE]

\* Significant=p < 0.05
Significant(p) == p < Alpha

\* min(p, 0.9999)
Capped(p) == IF p < PCap THEN p ELSE PCap

\* the dict appended to results for the vehicle group of a row, with its G2
\* (g2), its p-value (p) and its log-ratio (lr), and the calls that were made
GroupDict(row, ssc_words, lec_words, g2, p, lr) ==
    [raised |-> g2.raised,
     call |-> [a |-> row.SSC_Raw, b |-> row.LEC_Raw, ssc_words |-> ssc_words,
               lec_words |-> lec_words, logs |-> g2.logs, g2 |-> g2.value,
               ssc_rf |-> row.SSC_RF, lec_rf |-> row.LEC_RF, lr |-> lr],
     dict |-> [Vehicle_group |-> row.Vehicle_group, SSC_Raw |-> row.SSC_Raw,
               SSC_RF |-> row.SSC_RF, LEC_Raw |-> row.LEC_Raw,
               LEC_RF |-> row.LEC_RF,
               Log_Likelihood |-> g2.value, p_value |-> p,
               Significant |-> Significant(p),
               Sig_Marker |-> p_to_marker(p),
               Log_Ratio |-> lr,
               Interpretation |-> Interpretation(lr, row.SSC_RF, row.LEC_RF)]]

\* the p-value of a G2: p = float(chi2.sf(g2, 1)); p = min(p, 0.9999)
PValue(g2) == Capped(ChiSquareSf(g2.value))

\* the statistics of one row of the loop over the vehicle groups
GroupStatistics(row, ssc_words, lec_words, err) ==
    GroupDict(row, ssc_words, lec_words,
              g2_log_likelihood(row.SSC_Raw, row.LEC_Raw, ssc_words, lec_words,
                                err),
              PValue(g2_log_likelihood(row.SSC_Raw, row.LEC_Raw, ssc_words,
                                       lec_words, err)),
              log_ratio_log2(row.SSC_RF, row.LEC_RF, err))

\* the dict appended to results for the TOTALS row t
TotalsDict(t, ssc_words, lec_words, g2_total, p_total, lr_total) ==
    [raised |-> g2_total.raised,
     call |-> [a |-> t.SSC_Raw, b |-> t.LEC_Raw, ssc_words |-> ssc_words,
               lec_words |-> lec_words, logs |-> g2_total.logs,
               g2 |-> g2_total.value,
               ssc_rf |-> t.SSC_RF, lec_rf |-> t.LEC_RF, lr |-> lr_total],
     dict |-> [Vehicle_group |-> Totals, SSC_Raw |-> t.SSC_Raw,
               SSC_RF |-> t.SSC_RF, LEC_Raw |-> t.LEC_Raw,
               LEC_RF |-> t.LEC_RF,
               Log_Likelihood |-> g2_total.value, p_value |-> p_total,
               Significant |-> Significant(p_total),
               Sig_Marker |-> p_to_marker(p_total),
               Log_Ratio |-> lr_total,
               Interpretation |->
                   InterpretationTotal(lr_total, t.SSC_RF, t.LEC_RF)]]

\* the statistics of the TOTALS row t
TotalsStatistics(t, ssc_words, lec_words, err) ==
    TotalsDict(t, ssc_words, lec_words,
               g2_log_likelihood(t.SSC_Raw, t.LEC_Raw, ssc_words, lec_words,
                                 err),
               PValue(g2_log_likelihood(t.SSC_Raw, t.LEC_Raw, ssc_words,
                                        lec_words, err)),
               log_ratio_log2(t.SSC_RF, t.LEC_RF, err))

\* "<0.0001" if p < 1e-4 else f"{p:.4f}": the p-value in ten-thousandths
PValueFormatted(p) ==
    IF p < FourStarsBelow THEN [below |-> TRUE, shown |-> 1]
    ELSE [below |-> FALSE, shown |-> RoundHalfEven(p, 100)]

\* the formatting helpers at the end: p_value_formatted is added and
\* Log_Likelihood and Log_Ratio are rounded to two decimals (hundredths)
Formatted(d) ==
    [Vehicle_group |-> d.Vehicle_group, SSC_Raw |-> d.SSC_Raw,
     SSC_RF |-> d.SSC_RF, LEC_Raw |-> d.LEC_Raw, LEC_RF |-> d.LEC_RF,
     Log_Likelihood |-> RoundHalfEven(d.Log_Likelihood, 10000),
     p_value |-> d.p_value, Significant |-> d.Significant,
     Sig_Marker |-> d.Sig_Marker,
     Log_Ratio |-> RoundHalfEven(d.Log_Ratio, 10000),
     Interpretation |-> d.Interpretation,
     p_value_formatted |-> PValueFormatted(d.p_value)]

Failed(error, trace) ==
    [status |-> "error", error |-> error, table |-> <<>>, calls |-> trace]

\* "if ssc_words is None or lec_words is None:
\*      ssc_words, lec_words = infer_corpus_sizes_from_totals(df)"
Sizes(df, ssc_words, lec_words) ==
    IF ssc_words = None \/ lec_words = None
    THEN infer_corpus_sizes_from_totals(df)
    ELSE [error |-> "", ssc_words |-> ssc_words, lec_words |-> lec_words]

\* the TOTALS rows added back: every one of them
TotalsAddedBackAll(totals) == totals

\* "if not totals.empty: t = totals.iloc[0]": the first TOTALS row, if any
TotalsAddedBack(totals) == IF totals = <<>> THEN <<>> ELSE <<totals[1]>>

\* the statistics of the vehicle groups in input order, then those of the
\* TOTALS row added back
Computed(groups, totals, ssc_words, lec_words, err) ==
    [i \in 1..Len(groups) |->
       GroupStatistics(groups[i], ssc_words, lec_words, err)]
    \o [i \in 1..Len(totals) |->
          TotalsStatistics(totals[i], ssc_words, lec_words, err)]

\* the calls made for the rows computed
Trace(computed) == [i \in 1..Len(computed) |-> computed[i].call]

\* out = pd.DataFrame(results) and the formatting helpers; a logarithm that
\* raised ends the call, and so does the missing p_value column of an empty
\* DataFrame
DataFrame(computed) ==
    IF \E i \in 1..Len(computed) : computed[i].raised
    THEN Failed("math domain error", Trace(computed))
    ELSE IF computed = <<>>
    THEN Failed("KeyError: 'p_value'", Trace(computed))
    ELSE [status |-> "ok", error |-> "",
          table |-> [i \in 1..Len(computed) |-> Formatted(computed[i].dict)],
          calls |-> Trace(computed)]

\* calculate_statistics once the corpus sizes are settled
StatisticsWith(df, sizes, err) ==
    IF sizes.error # "" THEN Failed(sizes.error, <<>>)
    ELSE IF ~RatPositive(sizes.ssc_words) \/ ~RatPositive(sizes.lec_words)
    THEN Failed("Corpus sizes must be > 0.", <<>>)
    ELSE DataFrame(Computed(SelectSeq(df, LAMBDA row : ~IsTotals(row)),
                            TotalsAddedBack(SelectSeq(df, IsTotals)),
                            sizes.ssc_words, sizes.lec_words, err))

\* calculate_statistics(df, ssc_words, lec_words): the table returned or the
\* error raised, and the calls made on the way
calculate_statistics(df, ssc_words, lec_words, err) ==
    StatisticsWith(df, Sizes(df, ssc_words, lec_words), err)

(***************************************************************************)
(* 08: main, the command line.                                             *)
(***************************************************************************)
\* --outdir, default "outputs"
OutDir == "outputs"
ResultsCsv == "outputs/metaphor_statistics_results.csv"
BarPng == "outputs/metaphor_log_ratio_comparison.png"
BubblePng == "outputs/metaphor_significance_bubble_plot.png"

OutputFiles == {ResultsCsv, BarPng, BubblePng}

\* the step of main that the environment makes fail (a missing input file, a
\* plot that cannot be drawn or saved), if any
Faults ==
    {"none", "read_csv", "plot_diverging_log_ratio", "plot_bubble_significance"}

\* the rounding error of the logarithms of a run, in units of LogUlp
RoundingErrors == {-1, 0, 1}

\* the paths on disk after main has run as far as it gets
DiskAfter(fault, status) ==
    IF fault = "read_csv" \/ status # "ok" THEN {OutDir}
    ELSE IF fault = "plot_diverging_log_ratio" THEN {OutDir, ResultsCsv}
    ELSE IF fault = "plot_bubble_significance" THEN {OutDir, ResultsCsv, BarPng}
    ELSE {OutDir, ResultsCsv, BarPng, BubblePng}

(***************************************************************************)
(* The input tables and the command lines of the significance CLI.         *)
(***************************************************************************)
\* the size of the two corpora the relative frequencies are taken of
CorpusWords == 8
\* a corpus size given on the command line
SuppliedWords == 4

War == <<"w", "a", "r">>
Food == <<"f", "o", "o", "d">>

\* the relative frequency per 1000 words of raw occurrences in CorpusWords
RF(raw) == Rat(raw * PerWords, CorpusWords)

\* a row whose relative frequencies agree with its raw counts
Row(vg, a, b) ==
    [Vehicle_group |-> vg, SSC_Raw |-> RatInt(a), SSC_RF |-> RF(a),
     LEC_Raw |-> RatInt(b), LEC_RF |-> RF(b)]

\* a row with relative frequencies of its own
RowWith(vg, a, ssc_rf, b, lec_rf) ==
    [Vehicle_group |-> vg, SSC_Raw |-> RatInt(a), SSC_RF |-> ssc_rf,
     LEC_Raw |-> RatInt(b), LEC_RF |-> lec_rf]

RawChoices == {0, 1, CorpusWords \div 2, CorpusWords - 2, CorpusWords, MaxRaw}

\* relative frequencies at and below the floor of log_ratio_log2
AtFloor == Rat(1, ZeroFloorInverse)
BelowFloor == Rat(1, 2 * ZeroFloorInverse)

GroupRows ==
    { Row(War, a, b) : a \in RawChoices, b \in RawChoices }
    \cup { RowWith(War, 0, RatInt(0), 1, BelowFloor),
           RowWith(War, 1, BelowFloor, 0, RatInt(0)),
           RowWith(War, 0, RatInt(0), 1, AtFloor),
           RowWith(War, 1, AtFloor, 0, RatInt(0)) }

\* TOTALS rows: both corpora of CorpusWords words
TotalsEqual == Row(Totals, CorpusWords, CorpusWords)
\* ... the second corpus with half the occurrences
TotalsHalf == Row(Totals, CorpusWords, CorpusWords \div 2)
\* ... a lower-case label, the second corpus one word larger
TotalsLower ==
    RowWith(<<"t", "o", "t", "a", "l", "s">>, CorpusWords, RatInt(PerWords),
            CorpusWords + 1, RatInt(PerWords))
\* ... a raw total of 0
TotalsRawZero ==
    RowWith(Totals, 0, RatInt(PerWords), CorpusWords, RatInt(PerWords))
\* ... a relative frequency of 0
TotalsRfZero ==
    RowWith(Totals, CorpusWords, RatInt(0), CorpusWords, RatInt(PerWords))

TotalsRows == {TotalsEqual, TotalsHalf, TotalsLower, TotalsRawZero, TotalsRfZero}

InputTables ==
    {<<>>}
    \cup { <<g>> : g \in GroupRows }
    \cup { <<g, t>> : g \in GroupRows, t \in TotalsRows }
    \cup { <<t, g>> : g \in GroupRows, t \in {TotalsEqual, TotalsHalf} }
    \cup { <<TotalsEqual, g, TotalsLower>> : g \in GroupRows }
    \cup { <<TotalsLower, g, TotalsEqual>> : g \in GroupRows }
    \cup { <<g, Row(Food, CorpusWords \div 2, MaxRaw), TotalsEqual>> : g \in GroupRows }

\* --ssc_words / --lec_words: not given, a size, or 0
ArgChoices ==
    { [ssc_words |-> None, lec_words |-> None],
      [ssc_words |-> RatInt(SuppliedWords), lec_words |-> RatInt(SuppliedWords)],
      [ssc_words |-> RatInt(SuppliedWords), lec_words |-> None],
      [ssc_words |-> None, lec_words |-> RatInt(SuppliedWords)],
      [ssc_words |-> RatInt(0), lec_words |-> RatInt(SuppliedWords)],
      [ssc_words |-> RatInt(0), lec_words |-> None] }

InitStats ==
    /\ wb = NoResults
    /\ processed = NoResults
    /\ results = NoResults
    /\ pc = "cli"
    /\ csv \in InputTables
    /\ argv \in ArgChoices
    /\ stats = NotRun
    /\ calls = <<>>
    /\ disk = {}
    /\ DirIdle

\* main from the reading of the CSV on, r being what calculate_statistics
\* returns or raises: the run ends at the first step that raises
Steps(fault, r) ==
    /\ stats' = [status |-> r.status, error |-> r.error, table |-> r.table]
    /\ calls' = r.calls
    /\ disk' = disk \cup DiskAfter(fault, r.status)
    /\ pc' = IF r.status = "ok" /\ fault = "none" THEN "done" ELSE "failed"

\* one run of main: the output directory is made, the CSV is read,
\* calculate_statistics is called, the results are written and the two plots
\* are drawn and saved
Main(fault, err) ==
    /\ pc = "cli"
    /\ Steps(fault,
             IF fault = "read_csv" THEN NotRun @@ [calls |-> <<>>]
             ELSE calculate_statistics(csv, argv.ssc_words, argv.lec_words,
                                       err))
    /\ UNCHANGED <<csv, argv, pipelineVars, dirVars>>

NextStats == \E fault \in Faults, err \in RoundingErrors : Main(fault, err)

SpecStats == InitStats /\ [][NextStats]_vars

(***************************************************************************)
(* 07_frequenciesandestimates.py: process_directory, the two reports and   *)
(* the script's main block.  The base directory is a mapping from the      *)
(* paths of its files (relative to base_dir) to their contents; a Python   *)
(* dict is a sequence of key/value pairs in insertion order.               *)
(***************************************************************************)
\* the contents of a file that load_workbook cannot read
NotAWorkbook == [readable |-> FALSE, book |-> NoResults]

\* the contents of a file that holds the workbook book
WorkbookFile(book) == [readable |-> TRUE, book |-> book]

\* the sheet with only its first n columns
Narrow(sheet, n) == [i \in 1..Len(sheet) |-> SubSeq(sheet[i], 1, n)]

\* row[4] of a row of the 'extra' sheet, row[2] of a row of a regular sheet,
\* or row[2] / row[4] of a row of a sample sheet raises IndexError when the
\* sheet has too few columns (iter_rows yields tuples of max_column cells)
IndexErrorIn(book) ==
    \/ /\ "extra" \in DOMAIN book
       /\ MaxRow(book["extra"]) >= 2
       /\ Len(book["extra"][1]) < 5
    \/ \E name \in RegularSheets(book) :
         /\ MaxRow(book[name]) >= 2
         /\ Len(book[name][1]) < 3
    \/ \E name \in AnalysedSheets(book) :
         /\ MaxRow(book[SampleSheetName(name)]) >= 2
         /\ Len(book[SampleSheetName(name)][1]) < 5

\* the faults of the environment during one call of process_workbook: none,
\* or workbook.save raises (the output file is open elsewhere, the disk is
\* full)
SaveFaults == {"none", "save"}

\* process_workbook(workbook_path): whether the call raises, the dictionary
\* it returns and the workbook it saves
process_workbook(content, fault) ==
    IF ~content.readable \/ IndexErrorIn(content.book) \/ fault = "save"
    THEN [raised |-> TRUE, results |-> NoResults, saved |-> NoResults]
    ELSE [raised |-> FALSE, results |-> Results(content.book),
          saved |-> ProcessedWorkbook(content.book)]

\* the names of the files of the model without their extension
Stems == {"a", "sub/a", "a_processed"}

\* workbook_path.replace('.xlsx', '_processed.xlsx')
OutputPath(workbook_path) ==
    (CHOOSE s \in Stems : workbook_path = s \o ".xlsx") \o "_processed.xlsx"

\* if file.endswith('.xlsx') and not file.endswith('_processed.xlsx')
IsCandidate(file) ==
    /\ \E s \in Stems : file = s \o ".xlsx"
    /\ ~\E s \in Stems : file = s \o "_processed.xlsx"

\* the keys of a dict, in insertion order
DictKeys(d) == [i \in 1..Len(d) |-> d[i].key]

\* d[key] = value: the value of an existing key is replaced in place, a new
\* key goes to the end
DictSet(d, key, value) ==
    IF \E i \in 1..Len(d) : d[i].key = key
    THEN [i \in 1..Len(d) |->
            IF d[i].key = key THEN [key |-> key, value |-> value] ELSE d[i]]
    ELSE Append(d, [key |-> key, value |-> value])

\* all_results with the outcome of a call stored whether it raised or not
AllResultsStoringFailures(d, filepath, r) == DictSet(d, filepath, r.results)

\* all_results after the try statement: the assignment is reached only when
\* process_workbook has returned
AllResultsAfter(d, filepath, r) ==
    IF r.raised THEN d ELSE DictSet(d, filepath, r.results)

\* the directory after the call: the processed workbook is saved beside the
\* file, over whatever was there
DirAfter(files, filepath, r) ==
    IF r.raised THEN files
    ELSE [f \in DOMAIN files \cup {OutputPath(filepath)} |->
            IF f = OutputPath(filepath) THEN WorkbookFile(r.saved)
            ELSE files[f]]

\* sheet_data.get(key, default)
Get(sheet_data, key, default) ==
    IF key \in DOMAIN sheet_data THEN sheet_data[key] ELSE default

\* the keys of data the reports take for sheets: sheet_name != 'extra_metaphors'
\* and sheet_name.lower() is neither 'coding list' nor 'coding lists'
ReportedKeys(data) ==
    {k \in DOMAIN data :
       k # "extra_metaphors" /\ k \notin {"Coding List", "Coding Lists"}}

\* sheet_data.get raises AttributeError when sheet_data is a number
AttributeErrorIn(data) == \E k \in ReportedKeys(data) : ~IsDict(k)

\* sheet_data.get('sample_metaphors', 0) * 5
TimesFive(sheet_data) == RatInt(Get(sheet_data, "sample_metaphors", 0) * 5)

\* the row of one sheet, the same in both reports
SheetRow(sheet_name, sheet_data) ==
    [sheet_name |-> sheet_name,
     total_rows |-> Get(sheet_data, "total_rows", 0),
     total_hf_rows |-> Get(sheet_data, "total_hf_rows", 0),
     total_lf_rows |-> Get(sheet_data, "total_lf_rows", 0),
     sample_rows |-> Get(sheet_data, "sample_remaining_rows", 0),
     low_freq_metaphors |-> Get(sheet_data, "low_freq_metaphors", 0),
     extra_metaphors |-> 0,
     sample_metaphors |-> Get(sheet_data, "sample_metaphors", 0),
     hf_estimated |->
         Get(sheet_data, "hf_estimated_metaphors", TimesFive(sheet_data)),
     final_estimate |->
         Get(sheet_data, "final_estimate_excluding_extra",
             RatAdd(TimesFive(sheet_data),
                    RatInt(Get(sheet_data, "low_freq_metaphors", 0))))]

\* sum(sheet_data.get(field, 0) ...) over the keys taken for sheets
RECURSIVE SumGet(_, _, _)
SumGet(data, keys, field) ==
    IF keys = {} THEN 0
    ELSE LET k == CHOOSE x \in keys : TRUE
         IN Get(data[k], field, 0) + SumGet(data, keys \ {k}, field)

\* total_hf_estimated_metaphors of print_tabular_results
RECURSIVE SumHfOrTimesFive(_, _)
SumHfOrTimesFive(data, keys) ==
    IF keys = {} THEN RatInt(0)
    ELSE LET k == CHOOSE x \in keys : TRUE
         IN RatAdd(Get(data[k], "hf_estimated_metaphors", TimesFive(data[k])),
                   SumHfOrTimesFive(data, keys \ {k}))

\* the TOTAL row, given its column of the high frequency estimate
TotalRowOf(data, keys, hf_estimated) ==
    [sheet_name |-> "TOTAL",
     total_rows |-> SumGet(data, keys, "total_rows"),
     total_hf_rows |-> SumGet(data, keys, "total_hf_rows"),
     total_lf_rows |-> SumGet(data, keys, "total_lf_rows"),
     sample_rows |-> SumGet(data, keys, "sample_remaining_rows"),
     low_freq_metaphors |-> SumGet(data, keys, "low_freq_metaphors"),
     extra_metaphors |-> Get(data, "extra_metaphors", 0),
     sample_metaphors |-> SumGet(data, keys, "sample_metaphors"),
     hf_estimated |-> hf_estimated,
     final_estimate |->
         RatAdd(hf_estimated,
                RatInt(SumGet(data, keys, "low_freq_metaphors")
                       + Get(data, "extra_metaphors", 0)))]

\* total_row of print_tabular_results
TabularTotalRow(data, keys) ==
    TotalRowOf(data, keys, SumHfOrTimesFive(data, keys))

\* total_row of save_consolidated_results
ConsolidatedTotalRow(data, keys) ==
    TotalRowOf(data, keys, RatInt(SumGet(data, keys, "sample_metaphors") * 5))

\* the rows of one file in a report: one row per key taken for a sheet, and
\* the TOTAL row
TableOf(data, total_row) ==
    [sheets |-> [k \in ReportedKeys(data) |-> SheetRow(k, data[k])],
     total |-> total_row]

\* the position of the first file whose data makes the loop over its items
\* raise, or one past the last file
FirstRaising(res) ==
    IF \E i \in 1..Len(res) : AttributeErrorIn(res[i].value)
    THEN CHOOSE i \in 1..Len(res) :
           /\ AttributeErrorIn(res[i].value)
           /\ \A j \in 1..(i - 1) : ~AttributeErrorIn(res[j].value)
    ELSE Len(res) + 1

\* print_tabular_results(results): the tables printed and saved as
\* <file>_summary.csv, file by file, up to the file at which the loop raises
print_tabular_results(res) ==
    [status |-> IF FirstRaising(res) <= Len(res)
                THEN "AttributeError" ELSE "ok",
     files |-> [i \in 1..(FirstRaising(res) - 1) |->
                  [key |-> res[i].key,
                   value |-> TableOf(res[i].value,
                                     TabularTotalRow(
                                         res[i].value,
                                         ReportedKeys(res[i].value)))]]]

\* save_consolidated_results(results, base_dir): the rows written to
\* all_workbooks_summary.csv; the file is written after all rows were built
save_consolidated_results(res) ==
    IF FirstRaising(res) <= Len(res)
    THEN [status |-> "AttributeError", files |-> <<>>]
    ELSE [status |-> "ok",
          files |-> [i \in 1..Len(res) |->
                       [key |-> res[i].key,
                        value |-> TableOf(res[i].value,
                                          ConsolidatedTotalRow(
                                              res[i].value,
                                              ReportedKeys(
                                                  res[i].value)))]]]

(***************************************************************************)
(* 07: the base directories the script can be started on, and its main     *)
(* block: process_directory, print_tabular_results,                        *)
(* save_consolidated_results.                                              *)
(***************************************************************************)
\* the workbook with the main sheet, the sample the sampler has made of it
\* and the coding list
SampledBook(sheet) ==
    [n \in {MainSheet, SampleSheetName(MainSheet), "Coding List"} |->
       IF n = MainSheet THEN sheet
       ELSE IF n = "Coding List" THEN CodingList
       ELSE NewWorksheet(sheet, 0)]

\* the workbooks of the directories: one of a sheet with two rows of a rare
\* identity, one of a sheet with a frequent and a rare identity and with an
\* 'extra' sheet, one the sampler was not run on, one whose 'extra' sheet
\* has two columns only, one whose sample sheet has lost its columns D and E
Books ==
    LET small == SheetOf(<< <<IdGo, 2>> >>, Patterns[3])
        large == SheetOf(<< <<IdGo, LowFreqThreshold + 1>>, <<IdBe, 2>> >>,
                         Patterns[3])
    IN [small |-> SampledBook(small),
        large |-> WithSheet(SampledBook(large), "extra", ExtraSheet(<<Y>>)),
        unsampled |-> [n \in {MainSheet} |-> small],
        narrow_extra |->
            WithSheet(SampledBook(small), "extra",
                      Narrow(ExtraSheet(<<Y>>), 2)),
        narrow_sample |->
            WithSheet(SampledBook(small), SampleSheetName(MainSheet),
                      Narrow(NewWorksheet(small, 0), 3))]

\* the base directories: a workbook file, one in a subdirectory, the output
\* of an earlier run and a text file, each there or not
Directories ==
    { [f \in present |->
         CASE f = "a.xlsx" -> a
           [] f = "sub/a.xlsx" -> s
           [] f = "a_processed.xlsx" -> WorkbookFile(Books.small)
           [] OTHER -> NotAWorkbook]
      : present \in SUBSET {"a.xlsx", "sub/a.xlsx", "a_processed.xlsx",
                            "notes.txt"},
        a \in {WorkbookFile(Books.small), WorkbookFile(Books.large),
               WorkbookFile(Books.narrow_sample), NotAWorkbook},
        s \in {WorkbookFile(Books.large), WorkbookFile(Books.unsampled),
               WorkbookFile(Books.narrow_extra), NotAWorkbook} }

\* os.walk yields the files of base_dir in the order of the directory
\* listing, then those of the subdirectory
WalkOrders ==
    { <<"a.xlsx", "a_processed.xlsx", "notes.txt", "sub/a.xlsx">>,
      <<"notes.txt", "a_processed.xlsx", "a.xlsx", "sub/a.xlsx">> }

InitDir ==
    /\ wb = NoResults
    /\ processed = NoResults
    /\ results = NoResults
    /\ StatsIdle
    /\ pc = "walking"
    /\ dir \in Directories
    /\ \E order \in WalkOrders : walk = SelectSeq(order, LAMBDA f : f \in DOMAIN dir)
    /\ attempted = <<>>
    /\ all_results = <<>>
    /\ reports = [tabular |-> NoReport, consolidated |-> NoReport]

\* the try statement for the file at filepath, r being what process_workbook
\* does with it; attempted is the log of the calls ("Processing workbook:
\* ...") and of those that raised ("Error processing ...")
TryWorkbook(filepath, r) ==
    /\ attempted' = Append(attempted,
                           [filepath |-> filepath, raised |-> r.raised])
    /\ all_results' = AllResultsAfter(all_results, filepath, r)
    /\ dir' = DirAfter(dir, filepath, r)

\* one turn of the loop of process_directory over the files of the walk
WalkFile(fault) ==
    /\ pc = "walking"
    /\ walk # <<>>
    /\ IF IsCandidate(Head(walk))
       THEN TryWorkbook(Head(walk), process_workbook(dir[Head(walk)], fault))
       ELSE UNCHANGED <<attempted, all_results, dir>>
    /\ walk' = Tail(walk)
    /\ UNCHANGED <<pc, reports, pipelineVars, statsVars>>

\* process_directory has returned; print_tabular_results(results), which
\* ends the script when it raises
PrintTabularResults ==
    /\ pc = "walking"
    /\ walk = <<>>
    /\ reports' = [reports EXCEPT
                     !.tabular = print_tabular_results(all_results)]
    /\ pc' = IF print_tabular_results(all_results).status = "ok"
             THEN "printed" ELSE "failed"
    /\ UNCHANGED <<dir, walk, attempted, all_results, pipelineVars, statsVars>>

\* save_consolidated_results(results, base_dir)
SaveConsolidatedResults ==
    /\ pc = "printed"
    /\ reports' = [reports EXCEPT
                     !.consolidated = save_consolidated_results(all_results)]
    /\ pc' = IF save_consolidated_results(all_results).status = "ok"
             THEN "done" ELSE "failed"
    /\ UNCHANGED <<dir, walk, attempted, all_results, pipelineVars, statsVars>>

NextDir ==
    \/ \E fault \in SaveFaults : WalkFile(fault)
    \/ PrintTabularResults
    \/ SaveConsolidatedResults

SpecDir == InitDir /\ [][NextDir]_vars

(***************************************************************************)
(* Properties.                                                             *)
(***************************************************************************)
Estimated == pc = "estimated"

\* the cells of column E that make a row a metaphor: Y or O in either case
MetaphorCells == {<<"Y">>, <<"y">>, <<"O">>, <<"o">>}

\* the row numbers of the data rows of a sheet
RowNumbers(sheet) == 2..Len(sheet)

\* the number of data rows of the sheet whose column C is the string v
Occurrences(sheet, v) ==
    Cardinality({i \in RowNumbers(sheet) : sheet[i][3] = v})

\* the number of data rows of the sheet whose column E marks a metaphor
Metaphors(sheet) ==
    Cardinality({i \in RowNumbers(sheet) : sheet[i][5] \in MetaphorCells})

SampleOf(name) == name \o "_20%"
LfOf(name) == name \o "_lf"

\* the regular sheets of the input workbook for which the sampler has run
Sampled == {name \in RegularNames : SampleOf(name) \in DOMAIN wb}

\* C1: for every analysed sheet, hf_estimated_metaphors is
\* (sample_metaphors / sample_remaining_rows) * total_hf_rows when
\* sample_remaining_rows > 0 and 0 otherwise, whatever total_lf_rows is.
C1_HfScaledToHfRows ==
    Estimated =>
      \A name \in Sampled :
        LET e == results[name]
        IN e.hf_estimated_metaphors =
             IF e.sample_remaining_rows > 0
             THEN Rat(e.sample_metaphors * e.total_hf_rows,
                      e.sample_remaining_rows)
             ELSE RatInt(0)

\* C2: after sampler and process_workbook, the _lf sheet holds every
\* full-sheet row of every identity that occurs at most 20 times in the full
\* sheet.
C2_LowFrequencyExhaustive ==
    Estimated =>
      \A name \in Sampled :
        \A i \in RowNumbers(wb[name]) :
          LET row == wb[name][i]
          IN (row[3] # Null /\ Occurrences(wb[name], row[3]) <= 20)
             => \E j \in RowNumbers(processed[LfOf(name)]) :
                   processed[LfOf(name)][j] = row

\* the lowercase strings of column C of the data rows, by row number
KeyOf(sheet) == [i \in RowNumbers(sheet) |-> Lower(Str(sheet[i][3]))]

\* the number of data rows of a sheet with keys `keys` that have the key k
GroupSize(keys, k) == Cardinality({i \in DOMAIN keys : keys[i] = k})

\* C3: the sample sheet holds distinct rows of the full sheet, and of every
\* group (rows with the same lowercase column C) all rows when the group has
\* fewer than 20 rows, and max(1, floor(size * 0.2)) rows otherwise.
C3_SamplingCoverage ==
    \A name \in Sampled :
      LET full == wb[name]
          sample == wb[SampleOf(name)]
          fullKeys == KeyOf(full)
          sampleKeys == KeyOf(sample)
      IN /\ \A i, j \in RowNumbers(sample) : i # j => sample[i] # sample[j]
         /\ \A i \in RowNumbers(sample) :
              \E j \in RowNumbers(full) : full[j] = sample[i]
         /\ \A k \in {fullKeys[i] : i \in RowNumbers(full)} :
              LET size == GroupSize(fullKeys, k)
                  drawn == GroupSize(sampleKeys, k)
              IN IF size < 20
                 THEN drawn = size
                 ELSE /\ drawn >= 1
                      /\ (size >= 5
                            => 5 * drawn <= size /\ size < 5 * (drawn + 1))

\* a group of 25 rows gave 5 rows and a group of 10 rows gave all 10
C3_Witness ==
    \E name \in Sampled :
      LET fullKeys == KeyOf(wb[name])
          sampleKeys == KeyOf(wb[SampleOf(name)])
      IN \E k, l \in {fullKeys[i] : i \in RowNumbers(wb[name])} :
           /\ GroupSize(fullKeys, k) = 25 /\ GroupSize(sampleKeys, k) = 5
           /\ GroupSize(fullKeys, l) = 10 /\ GroupSize(sampleKeys, l) = 10

\* C4: after process_workbook no row of a low frequency identity is left in
\* the reduced sample sheet, and no row is in both the reduced sample sheet
\* and the _lf sheet.
C4_NoDoubleCounting ==
    Estimated =>
      \A name \in Sampled :
        LET reduced == processed[SampleOf(name)]
            lf == processed[LfOf(name)]
        IN /\ \A i \in RowNumbers(reduced) :
                ~(/\ reduced[i][3] # Null
                  /\ reduced[i][3] \in results[name].low_freq_strings)
           /\ \A i \in RowNumbers(reduced), j \in RowNumbers(lf) :
                reduced[i] # lf[j]

\* the low frequency rows of the sample were its first row, its last row and
\* two consecutive rows, with rows of a high frequency identity among them
C4_Witness ==
    /\ Estimated
    /\ \E name \in Sampled :
         LET sample == wb[SampleOf(name)]
             low == {i \in RowNumbers(sample) :
                       /\ sample[i][3] # Null
                       /\ sample[i][3] \in results[name].low_freq_strings}
         IN /\ 2 \in low
            /\ Len(sample) \in low
            /\ \E i \in low : i + 1 \in low
            /\ \E i \in RowNumbers(sample) : i \notin low
            /\ Len(processed[SampleOf(name)]) = Len(sample) - Cardinality(low)

\* the regular sheets of the input workbook
Regular == RegularNames \cap DOMAIN wb

\* C5: every per-sheet entry, also that of a sheet without a sample sheet, has
\* total_rows = the full sheet's data rows, total_lf_rows = the rows removed
\* from the sample, and total_hf_rows + total_lf_rows = total_rows with
\* total_hf_rows >= 0.
C5_CountsOfEverySheet ==
    Estimated =>
      \A name \in Regular :
        LET e == results[name]
        IN /\ {"total_rows", "total_lf_rows", "total_hf_rows"} \subseteq DOMAIN e
           /\ e.total_rows = Len(wb[name]) - 1
           /\ name \in Sampled =>
                e.total_lf_rows = Len(wb[SampleOf(name)])
                                  - Len(processed[SampleOf(name)])
           /\ e.total_hf_rows + e.total_lf_rows = e.total_rows
           /\ e.total_hf_rows >= 0

\* C5 as amended: the counts are those of the sheets that have a sample sheet;
\* the entry of a sheet without one holds total_rows (and low_freq_strings)
\* and neither total_lf_rows nor total_hf_rows.
C5_CountsOfSampledSheets ==
    Estimated =>
      /\ \A name \in Sampled :
           LET e == results[name]
           IN /\ e.total_rows = Len(wb[name]) - 1
              /\ e.total_lf_rows = Len(wb[SampleOf(name)])
                                   - Len(processed[SampleOf(name)])
              /\ e.total_hf_rows + e.total_lf_rows = e.total_rows
              /\ e.total_hf_rows >= 0
      /\ \A name \in Regular \ Sampled :
           /\ DOMAIN results[name] = {"total_rows", "low_freq_strings"}
           /\ results[name].total_rows = Len(wb[name]) - 1

\* one sheet lost rows to the _lf sheet and kept high frequency rows, another
\* sheet has no sample sheet
C5_Witness ==
    /\ Estimated
    /\ \E name \in Sampled :
         results[name].total_lf_rows > 0 /\ results[name].total_hf_rows > 0
    /\ Regular \ Sampled # {}

\* C6: final_estimate_excluding_extra = hf_estimated_metaphors +
\* low_freq_metaphors, hence never below low_freq_metaphors.
C6_FinalIsHfPlusLf ==
    Estimated =>
      \A name \in Sampled :
        LET e == results[name]
            final == e.final_estimate_excluding_extra
            hf == e.hf_estimated_metaphors
        IN /\ final.num * hf.den
                = (hf.num + e.low_freq_metaphors * hf.den) * final.den
           /\ e.low_freq_metaphors * final.den <= final.num

\* one sheet's reduced sample is empty (the estimate falls back to 0) and has
\* low frequency metaphors, another sheet has both kinds
C6_Witness ==
    /\ Estimated
    /\ \E name \in Sampled :
         /\ results[name].sample_remaining_rows = 0
         /\ results[name].low_freq_metaphors > 0
    /\ \E name \in Sampled :
         /\ results[name].hf_estimated_metaphors.num > 0
         /\ results[name].low_freq_metaphors > 0

\* the sum of a rational per name over a set of names
RECURSIVE SumOver(_, _)
SumOver(f, names) ==
    IF names = {} THEN RatInt(0)
    ELSE LET n == CHOOSE x \in names : TRUE
         IN RatAdd(f[n], SumOver(f, names \ {n}))

\* C7: final_estimate_total is the sum of hf_estimated_metaphors and of
\* low_freq_metaphors over the analysed sheets plus extra_metaphors, once and
\* unscaled; a sheet without sample sheet adds 0, no 'extra' sheet gives 0.
C7_WorkbookTotal ==
    Estimated =>
      LET hf == [name \in Regular |->
                   IF name \in Sampled
                   THEN results[name].hf_estimated_metaphors ELSE RatInt(0)]
          lf == [name \in Regular |->
                   IF name \in Sampled
                   THEN RatInt(results[name].low_freq_metaphors)
                   ELSE RatInt(0)]
          extra == IF "extra" \in DOMAIN wb THEN Metaphors(wb["extra"]) ELSE 0
      IN /\ results["extra_metaphors"] = extra
         /\ results["final_estimate_total"]
              = RatAdd(RatAdd(SumOver(hf, Regular), SumOver(lf, Regular)),
                       RatInt(extra))

\* two analysed sheets, each with a scaled estimate and low frequency
\* metaphors, and an 'extra' sheet with metaphors
C7_Witness ==
    /\ Estimated
    /\ Cardinality(Sampled) = 2
    /\ \A name \in Sampled :
         /\ results[name].hf_estimated_metaphors.num > 0
         /\ results[name].low_freq_metaphors > 0
    /\ results["extra_metaphors"] > 0

\* C8: at the three counting sites (extra sheet, _lf sheet, reduced sample) a
\* row is counted iff its column E, upper-cased, is exactly "Y" or "O".
C8_MetaphorRule ==
    Estimated =>
      /\ results["extra_metaphors"]
           = IF "extra" \in DOMAIN wb THEN Metaphors(wb["extra"]) ELSE 0
      /\ \A name \in Sampled :
           /\ results[name].low_freq_metaphors = Metaphors(processed[LfOf(name)])
           /\ results[name].sample_metaphors
                = Metaphors(processed[SampleOf(name)])

\* every counting site met rows that count (one of them in lower case) and
\* rows that do not (an empty cell among them)
C8_Witness ==
    /\ Estimated
    /\ "extra" \in DOMAIN wb
    /\ results["extra_metaphors"] > 0
    /\ results["extra_metaphors"] < Len(wb["extra"]) - 1
    /\ \E i \in RowNumbers(wb["extra"]) : wb["extra"][i][5] = <<"y">>
    /\ \E name \in Sampled :
         LET e == results[name]
         IN /\ e.low_freq_metaphors > 0
            /\ e.low_freq_metaphors < e.total_lf_rows
            /\ e.sample_metaphors > 0
            /\ e.sample_metaphors < e.sample_remaining_rows
            /\ \E i \in RowNumbers(processed[SampleOf(name)]) :
                 processed[SampleOf(name)][i][5] = Null

\* C9: an identity is classified LOW iff the number of full-sheet rows whose
\* column C is exactly that string is <= 20, whatever the sample sheet holds.
C9_LowIffAtMostTwenty ==
    Estimated =>
      \A name \in Regular :
        results[name].low_freq_strings
          = {v \in {wb[name][i][3] : i \in RowNumbers(wb[name])} \ {Null} :
               Occurrences(wb[name], v) <= 20}

\* an identity with 20 rows is LOW beside one with 21 rows that is not, and a
\* string that differs from another in case only is counted on its own
C9_Witness ==
    /\ Estimated
    /\ \E name \in Sampled :
         /\ \E v \in results[name].low_freq_strings :
              Occurrences(wb[name], v) = 20
         /\ \E i \in RowNumbers(wb[name]) :
              /\ Occurrences(wb[name], wb[name][i][3]) = 21
              /\ wb[name][i][3] \notin results[name].low_freq_strings
         /\ IdRunCap \in results[name].low_freq_strings

\* C10: sample_remaining_rows = rows of the original sample - total_lf_rows,
\* sample_metaphors <= sample_remaining_rows, and low_freq_metaphors +
\* sample_metaphors = the metaphor rows of the original sample sheet.
C10_CountedAfterRemoval ==
    Estimated =>
      \A name \in Sampled :
        LET e == results[name]
        IN /\ e.sample_remaining_rows
                = (Len(wb[SampleOf(name)]) - 1) - e.total_lf_rows
           /\ e.sample_metaphors <= e.sample_remaining_rows
           /\ e.low_freq_metaphors + e.sample_metaphors
                = Metaphors(wb[SampleOf(name)])

\* rows were removed, rows remain, and both parts hold metaphors
C10_Witness ==
    /\ Estimated
    /\ \E name \in Sampled :
         LET e == results[name]
         IN /\ e.total_lf_rows > 0
            /\ e.sample_remaining_rows > 0
            /\ e.low_freq_metaphors > 0
            /\ e.sample_metaphors > 0
            /\ e.sample_metaphors < e.sample_remaining_rows

(***************************************************************************)
(* Properties of the significance engine, under SpecStats.                 *)
(***************************************************************************)
\* main has run to its end or to the step that raised
Ran == pc \in {"done", "failed"}

\* calculate_statistics has returned a table
Returned == stats.status = "ok"

\* the row numbers of the table returned
TableRows == 1..Len(stats.table)

\* the calls of g2_log_likelihood and log_ratio_log2 that were made
Calls == 1..Len(calls)

\* C11: in every row of the table returned, the TOTALS row included,
\* Sig_Marker is "ns" exactly when p_value >= 0.05, Significant is true
\* exactly when the marker is not "ns", the marker is "****" below 0.0001,
\* "***" from 0.0001 to below 0.001 and "*" from 0.001 to below 0.05, and
\* p_value is the capped, unrounded p-value of the row's G2.
C11_MarkerConsistency ==
    Returned =>
      \A i \in TableRows :
        LET row == stats.table[i]
            p == row.p_value
        IN /\ (row.Sig_Marker = "ns") <=> (p >= 50000)
           /\ row.Significant <=> (row.Sig_Marker # "ns")
           /\ p < 100 => row.Sig_Marker = "****"
           /\ (p >= 100 /\ p < 1000) => row.Sig_Marker = "***"
           /\ (p >= 1000 /\ p < 50000) => row.Sig_Marker = "*"
           /\ p = (IF ChiSquareSf(calls[i].g2) < 999900
                   THEN ChiSquareSf(calls[i].g2) ELSE 999900)

\* a table with a "***" vehicle group and a "*" TOTALS row
C11_Witness ==
    /\ Returned
    /\ \E i, j \in TableRows :
         /\ stats.table[i].Vehicle_group # Totals
         /\ stats.table[i].Sig_Marker = "***"
         /\ stats.table[j].Vehicle_group = Totals
         /\ stats.table[j].Sig_Marker = "*"

\* calculate_statistics was called (the input was read)
Called == Ran /\ stats.status # "not run"

\* the TOTALS rows of the input, in order
TotalsOfInput == SelectSeq(csv, IsTotals)

\* the errors that reject the corpus sizes
SizeErrors ==
    {"No TOTALS row found.",
     "TOTALS RF values must be > 0 to infer corpus size.",
     "Corpus sizes must be > 0."}

\* C12: calculate_statistics raises, and returns no table, when a size is
\* not supplied and the input has no TOTALS row (in any case of the letters),
\* when a supplied size is <= 0, and when a size that is not supplied has a
\* raw total or a relative frequency <= 0 in the TOTALS row; in every other
\* case a size that is not supplied is raw_total * 1000 / rf_total.
C12_RejectsMissingOrBadSizes ==
    Called =>
      LET noSsc == argv.ssc_words = None
          noLec == argv.lec_words = None
          t == TotalsOfInput[1]
          fails == stats.status = "error" /\ stats.error \in SizeErrors
                     /\ stats.table = <<>>
      IN /\ ((noSsc \/ noLec) /\ TotalsOfInput = <<>>) => fails
         /\ (~noSsc /\ argv.ssc_words.num <= 0) => fails
         /\ (~noLec /\ argv.lec_words.num <= 0) => fails
         /\ (noSsc /\ TotalsOfInput # <<>>
               /\ (t.SSC_Raw.num <= 0 \/ t.SSC_RF.num <= 0)) => fails
         /\ (noLec /\ TotalsOfInput # <<>>
               /\ (t.LEC_Raw.num <= 0 \/ t.LEC_RF.num <= 0)) => fails
         /\ (Returned /\ noSsc) =>
              \A i \in Calls :
                calls[i].ssc_words =
                  RatDiv(RatMul(t.SSC_Raw, RatInt(1000)), t.SSC_RF)
         /\ (Returned /\ noLec) =>
              \A i \in Calls :
                calls[i].lec_words =
                  RatDiv(RatMul(t.LEC_Raw, RatInt(1000)), t.LEC_RF)

\* C13: a size supplied on the command line is the size of every G2
\* computation, also when the other size is not supplied and is inferred from
\* the TOTALS row; with both sizes supplied no TOTALS row is asked for, and
\* with one size supplied the TOTALS row is asked for the other size only.
C13_SuppliedSizeOverrides ==
    Called =>
      LET noSsc == argv.ssc_words = None
          noLec == argv.lec_words = None
          t == TotalsOfInput[1]
          notInferred == stats.error \notin
                           {"No TOTALS row found.",
                            "TOTALS RF values must be > 0 to infer corpus size."}
      IN /\ ~noSsc => \A i \in Calls : calls[i].ssc_words = argv.ssc_words
         /\ ~noLec => \A i \in Calls : calls[i].lec_words = argv.lec_words
         /\ (~noSsc /\ ~noLec) => notInferred
         /\ (~noSsc /\ noLec /\ TotalsOfInput # <<>> /\ t.LEC_RF.num > 0)
              => notInferred
         /\ (noSsc /\ ~noLec /\ TotalsOfInput # <<>> /\ t.SSC_RF.num > 0)
              => notInferred

\* C14: in every call of g2_log_likelihood with positive corpus sizes, the
\* cells whose term is added are exactly those with observed > 0 and
\* expected > 0, so every quotient observed / expected is defined and
\* positive, no logarithm raises, and the call returns a number.
C14_LogOnlyOfPositive ==
    Called =>
      /\ stats.error # "math domain error"
      /\ \A i \in Calls :
           LET call == calls[i]
               cells == Cells(call.a, call.b, call.ssc_words, call.lec_words)
           IN (call.ssc_words.num > 0 /\ call.lec_words.num > 0) =>
                /\ \A k \in 1..Len(call.logs) :
                     /\ call.logs[k].obs.num > 0
                     /\ call.logs[k].exp.num > 0
                /\ \A k \in 1..4 :
                     (cells[k].obs.num > 0 /\ cells[k].exp.num > 0)
                       => \E n \in 1..Len(call.logs) : call.logs[n] = cells[k]

\* a call with a raw count of 0 beside one above its corpus size, and a call
\* with a + b = 0: terms are left out
C14_Witness ==
    /\ Returned
    /\ \E i \in Calls :
         /\ calls[i].a.num = 0
         /\ RatLess(calls[i].lec_words, calls[i].b)
         /\ Len(calls[i].logs) < 4
    /\ \E i \in Calls :
         /\ calls[i].a.num = 0 /\ calls[i].b.num = 0
         /\ Len(calls[i].logs) = 2

\* a call with valid inputs: 0 <= a <= ssc_words, 0 <= b <= lec_words and
\* both corpus sizes > 0
ValidCall(call) ==
    /\ call.ssc_words.num > 0 /\ call.lec_words.num > 0
    /\ call.a.num >= 0 /\ ~RatLess(call.ssc_words, call.a)
    /\ call.b.num >= 0 /\ ~RatLess(call.lec_words, call.b)

\* the two corpora have the same rate: a / ssc_words = b / lec_words
SameRate(call) ==
    RatMul(call.a, call.lec_words) = RatMul(call.b, call.ssc_words)

Mirrored(c1, c2) ==
    /\ c1.ssc_rf.num > 0 /\ c1.lec_rf.num > 0
    /\ c1.ssc_rf = c2.lec_rf /\ c1.lec_rf = c2.ssc_rf

\* C17 as stated: for rf_a > 0 and rf_b > 0, log_ratio_log2(rf_a, rf_b) is
\* -log_ratio_log2(rf_b, rf_a), and log_ratio_log2(rf_a, rf_a) is 0.
C17_Antisymmetric ==
    \A i, j \in Calls :
      /\ Mirrored(calls[i], calls[j]) => calls[i].lr = -calls[j].lr
      /\ (calls[i].ssc_rf.num > 0 /\ calls[i].ssc_rf = calls[i].lec_rf)
           => calls[i].lr = 0

\* C17, amended: for rf_a > 0 and rf_b > 0, log_ratio_log2(rf_a, rf_b) and
\* -log_ratio_log2(rf_b, rf_a) differ by no more than the rounding errors of
\* the two logarithms, they are equal when rf_a / rf_b is a power of two, and
\* log_ratio_log2(rf_a, rf_a) is 0.
C17_AntisymmetricUpToRounding ==
    \A i, j \in Calls :
      /\ Mirrored(calls[i], calls[j]) =>
           LET sum == calls[i].lr + calls[j].lr
               q == RatDiv(calls[i].ssc_rf, calls[i].lec_rf)
           IN /\ sum <= 2 * LogUlp /\ -sum <= 2 * LogUlp
              /\ (q.num \in {1, 2, 4, 8, 16} /\ q.den \in {1, 2, 4, 8, 16})
                   => sum = 0
      /\ (calls[i].ssc_rf.num > 0 /\ calls[i].ssc_rf = calls[i].lec_rf)
           => calls[i].lr = 0

\* a table with two rows whose relative frequencies are exchanged and whose
\* log-ratios do not add up to 0
C17_Witness ==
    /\ Returned
    /\ \E i, j \in Calls :
         /\ i # j
         /\ Mirrored(calls[i], calls[j])
         /\ calls[i].ssc_rf # calls[i].lec_rf
         /\ calls[i].lr + calls[j].lr # 0

\* the rows of the input that are not TOTALS rows, in order
GroupsOfInput == SelectSeq(csv, LAMBDA row : Upper(row.Vehicle_group) # Totals)

\* the row of the table carries the counts and frequencies of the input row
SameInput(out, in) ==
    /\ out.SSC_Raw = in.SSC_Raw /\ out.SSC_RF = in.SSC_RF
    /\ out.LEC_Raw = in.LEC_Raw /\ out.LEC_RF = in.LEC_RF

\* the table has one row per vehicle group of the input, in input order,
\* followed by one row labelled TOTALS if the input has a TOTALS row
GroupsThenTotals ==
    LET n == Len(GroupsOfInput)
    IN /\ Len(stats.table) = n + (IF TotalsOfInput = <<>> THEN 0 ELSE 1)
       /\ \A i \in 1..n :
            /\ stats.table[i].Vehicle_group = GroupsOfInput[i].Vehicle_group
            /\ SameInput(stats.table[i], GroupsOfInput[i])
       /\ TotalsOfInput # <<>> =>
            stats.table[n + 1].Vehicle_group = <<"T", "O", "T", "A", "L", "S">>

\* C18 as stated: the table returned has one row per vehicle group, in input
\* order, then exactly one TOTALS row if the input has one; no input row is
\* dropped or duplicated, whatever the number of TOTALS rows of the input.
C18_RowForRow ==
    Returned =>
      /\ GroupsThenTotals
      /\ Len(stats.table) = Len(csv)
      /\ \A k \in 1..Len(TotalsOfInput) :
           \E i \in TableRows :
             /\ Upper(stats.table[i].Vehicle_group) = Totals
             /\ SameInput(stats.table[i], TotalsOfInput[k])

\* C18, amended: the table returned has one row per vehicle group, in input
\* order, then exactly one TOTALS row if the input has one; no vehicle-group
\* row is dropped or duplicated, and the TOTALS row is the first TOTALS row
\* of the input: any further TOTALS row of the input is dropped.
C18_FirstTotalsOnly ==
    Returned =>
      /\ GroupsThenTotals
      /\ TotalsOfInput # <<>> =>
           /\ SameInput(stats.table[Len(stats.table)], TotalsOfInput[1])
           /\ Len(stats.table) = Len(csv) - (Len(TotalsOfInput) - 1)

\* an input with two TOTALS rows, the first one in lower case: the table has
\* one row less than the input, the second TOTALS row is not in it
C18_Witness ==
    /\ Returned
    /\ Len(TotalsOfInput) = 2
    /\ TotalsOfInput[1].Vehicle_group # Totals
    /\ Len(GroupsOfInput) = 1
    /\ Len(stats.table) = 2
    /\ ~SameInput(stats.table[2], TotalsOfInput[2])

\* C19: the TOTALS row of the table gets its statistics the way a vehicle
\* group does: a vehicle group with the same counts and frequencies has the
\* same Log_Likelihood, p_value, Significant, Sig_Marker and Log_Ratio, and
\* the Interpretation of the TOTALS row follows the sign of its log-ratio:
\* SSC uses more when it is > 0, LEC uses more when it is < 0, no difference
\* when it is 0.
C19_TotalsLikeGroups ==
    (Returned /\ TotalsOfInput # <<>>) =>
      LET k == Len(stats.table)
          t == stats.table[k]
          lr == calls[k].lr
      IN /\ t.Interpretation.more =
              (IF lr > 0 THEN "SSC" ELSE IF lr < 0 THEN "LEC"
               ELSE "No difference")
         /\ \A i \in 1..(k - 1) :
              SameInput(stats.table[i], t) =>
                /\ stats.table[i].Log_Likelihood = t.Log_Likelihood
                /\ stats.table[i].p_value = t.p_value
                /\ stats.table[i].Significant = t.Significant
                /\ stats.table[i].Sig_Marker = t.Sig_Marker
                /\ stats.table[i].Log_Ratio = t.Log_Ratio
                /\ stats.table[i].Interpretation.more = t.Interpretation.more
                /\ stats.table[i].Interpretation.times = t.Interpretation.times

\* C20: when a step of main raises, none of the three output files is on
\* disk; the results CSV and the two plots are all there or none of them is.
C20_AllOrNothing ==
    Ran =>
      /\ pc = "failed" => disk \cap OutputFiles = {}
      /\ disk \cap OutputFiles \in {{}, OutputFiles}

(***************************************************************************)
(* Further properties of the sampler and the estimator, under Spec.        *)
(***************************************************************************)
\* the sheets for which the step at hand is a run of the sampler
SampledNow == {name \in RegularNames :
                 SampleOf(name) \in (DOMAIN wb') \ (DOMAIN wb)}

\* the source worksheet has the same rows in the same order after the run
SourceKept(name) == wb'[name] = wb[name]

\* the sample sheet is a copy of the header, then verbatim source rows
VerbatimCopies(name) ==
    /\ wb'[SampleOf(name)][1] = wb[name][1]
    /\ \A j \in RowNumbers(wb'[SampleOf(name)]) :
         \E i \in RowNumbers(wb[name]) : wb'[SampleOf(name)][j] = wb[name][i]

\* the workbook file stored under workbook_path is the one that was loaded
StoredFileKept == wb' = wb

\* C22: a run of the sampler leaves the source worksheet as it was, writes
\* only verbatim copies of source rows under a copy of the header to the
\* _20% sheet, and overwrites nothing that is stored: the workbook file is
\* the same after the run as before it.
C22_SamplerHasNoSideEffect ==
    [][\A name \in SampledNow :
         SourceKept(name) /\ VerbatimCopies(name) /\ StoredFileKept]_vars

\* the part of C22 about the worksheets alone
SamplerCopiesVerbatim ==
    [][\A name \in SampledNow : SourceKept(name) /\ VerbatimCopies(name)]_vars

\* C23: for every analysed sheet the estimates stay within the populations:
\* hf_estimated_metaphors <= total_hf_rows and
\* final_estimate_excluding_extra <= total_rows.
C23_EstimateWithinPopulation ==
    Estimated =>
      \A name \in Sampled :
        LET e == results[name]
        IN /\ ~RatLess(RatInt(e.total_hf_rows), e.hf_estimated_metaphors)
           /\ ~RatLess(RatInt(e.total_rows), e.final_estimate_excluding_extra)

\* the estimates of C23 with the high frequency estimate scaled to
\* total_hf_rows, as C1 has it
WithinPopulationWhenScaledToHfRows ==
    Estimated =>
      \A name \in Sampled :
        LET e == results[name]
            hf == IF e.sample_remaining_rows > 0
                  THEN Rat(e.sample_metaphors * e.total_hf_rows,
                           e.sample_remaining_rows)
                  ELSE RatInt(0)
        IN /\ ~RatLess(RatInt(e.total_hf_rows), hf)
           /\ ~RatLess(RatInt(e.total_rows),
                       RatAdd(hf, RatInt(e.low_freq_metaphors)))

(***************************************************************************)
(* Properties of process_directory and the reports, under SpecDir.         *)
(***************************************************************************)
\* process_directory has returned
WalkDone == walk = <<>>

\* the script has ended
MainEnded == pc \in {"done", "failed"}

\* the files of the base directory the walk has to take
Candidates ==
    {f \in DOMAIN dir :
       /\ \E s \in {"a", "sub/a", "notes"} : f = s \o ".xlsx"
       /\ f # "a_processed.xlsx"}

\* how often process_workbook was called with the file
Attempts(f) ==
    Cardinality({i \in 1..Len(attempted) : attempted[i].filepath = f})

\* the files whose processing has returned
Succeeded ==
    {attempted[i].filepath :
       i \in {j \in 1..Len(attempted) : ~attempted[j].raised}}

\* C21: process_directory calls process_workbook exactly once for every
\* .xlsx file of the directory that does not end in _processed.xlsx and for
\* no other file, whether calls before it have raised or not; the mapping it
\* returns has exactly one entry for each file whose call has returned, the
\* dictionary process_workbook returns for it, and none for a file whose
\* call has raised.
C21_BatchResilience ==
    /\ \A f \in DOMAIN dir :
         Attempts(f) <= (IF f \in Candidates THEN 1 ELSE 0)
    /\ \A i \in 1..Len(all_results) :
         /\ all_results[i].key \in Succeeded
         /\ all_results[i].value = Results(dir[all_results[i].key].book)
         /\ \A j \in 1..Len(all_results) :
              all_results[j].key = all_results[i].key => j = i
    /\ Succeeded \subseteq Range(DictKeys(all_results))
    /\ WalkDone => \A f \in Candidates : Attempts(f) = 1

\* process_directory has returned after a call that raised, a later call
\* that returned, and files it passed over
C21_Witness ==
    /\ WalkDone
    /\ Len(attempted) = 2
    /\ attempted[1].raised
    /\ ~attempted[2].raised
    /\ DictKeys(all_results) = <<attempted[2].filepath>>
    /\ {"a_processed.xlsx", "notes.txt"} \subseteq DOMAIN dir

\* the keys of data that stand for sheets
SheetKeys(data) ==
    DOMAIN data \ {"extra_metaphors", "hf_estimated_metaphors_total",
                   "final_estimate_total"}

\* the report has the tables of exactly the files of all_results, each with
\* one row per sheet and a TOTAL row
ReportComplete(report) ==
    /\ report.status = "ok"
    /\ DictKeys(report.files) = DictKeys(all_results)
    /\ \A i \in 1..Len(report.files) :
         /\ DOMAIN report.files[i].value.sheets
              = SheetKeys(all_results[i].value)
         /\ report.files[i].value.total.sheet_name = "TOTAL"

\* C24: print_tabular_results and save_consolidated_results run to
\* completion on the mapping process_directory returns and emit, for every
\* file of it, one row per sheet and one TOTAL row; extra_metaphors,
\* hf_estimated_metaphors_total and final_estimate_total get no row.
C24_ReportsRunToCompletion ==
    MainEnded =>
      /\ ReportComplete(reports.tabular)
      /\ ReportComplete(reports.consolidated)

\* the TOTAL row of the report for the i-th file has the workbook totals of
\* process_workbook
TotalAgrees(report, i) ==
    /\ i <= Len(report.files)
    /\ report.files[i].value.total.hf_estimated
         = all_results[i].value["hf_estimated_metaphors_total"]
    /\ report.files[i].value.total.final_estimate
         = all_results[i].value["final_estimate_total"]

\* C25: in both reports the TOTAL row of every file has the sum of the
\* per-sheet hf_estimated_metaphors as its HF estimate and
\* final_estimate_total as its final estimate.
C25_TotalRowAgreesWithEstimator ==
    MainEnded =>
      \A i \in 1..Len(all_results) :
        /\ TotalAgrees(reports.tabular, i)
        /\ TotalAgrees(reports.consolidated, i)

\* the TOTAL row print_tabular_results computes from the sheet entries alone
\* has the workbook totals
TabularTotalOfSheetsAgrees ==
    \A i \in 1..Len(all_results) :
      LET data == all_results[i].value
          row == TabularTotalRow(data, SheetKeys(data))
      IN /\ row.hf_estimated = data["hf_estimated_metaphors_total"]
         /\ row.final_estimate = data["final_estimate_total"]

\* the TOTAL row save_consolidated_results computes from the sheet entries
\* alone has the workbook totals
ConsolidatedTotalOfSheetsAgrees ==
    \A i \in 1..Len(all_results) :
      LET data == all_results[i].value
          row == ConsolidatedTotalRow(data, SheetKeys(data))
      IN /\ row.hf_estimated = data["hf_estimated_metaphors_total"]
         /\ row.final_estimate = data["final_estimate_total"]

====
